---- MODULE Spec2Model ----
(***************************************************************************)
(* Transaction service + in-memory storage core of async-backend-skeleton. *)
(*                                                                         *)
(* Callers (one per inbound request) run TransactionService operations     *)
(* concurrently against one InMemoryStorage, a HashMap<Uuid, Transaction>  *)
(* behind a single tokio RwLock.  Each store operation is modelled as two  *)
(* steps: acquiring the lock (the only .await of the operation) and the    *)
(* body executed with the guard held, which ends by dropping the guard.    *)
(* Uuid::new_v4() is modelled as a fresh identifier (nextId); Utc::now()   *)
(* reads the wall clock, which the environment advances and may set back.  *)
(***************************************************************************)
EXTENDS Integers, Sequences, FiniteSets, TLC

(* ---------------------------- bounds ----------------------------------- *)
MaxTxns == 2
MaxClock == 1
MaxCalls == 3

\* The concurrent callers (one per request in flight).
Procs == {1, 2}
Ids == 1..MaxTxns
Times == 0..MaxClock

(* ------------------------- domain/models.rs ---------------------------- *)
Pending == "PENDING"
Completed == "COMPLETED"
Failed == "FAILED"
Cancelled == "CANCELLED"

TransactionStatus == {Pending, Completed, Failed, Cancelled}

Currency == {"USD", "EUR", "GBP", "JPY", "CAD", "AUD", "CHF"}

\* Option::None of ListFilters.status / ListFilters.currency
None == "None"

\* Mutant: a guard that only refuses self-transitions.
can_transition_to_loose(self, target) == self # target

can_transition_to(self, target) ==
    \/ (self = Pending /\ target = Completed)
    \/ (self = Pending /\ target = Failed)
    \/ (self = Pending /\ target = Cancelled)

(* ------------------------ f64 amounts and strings ---------------------- *)
\* An f64 is a finite number, NaN, +infinity or -infinity.
Fin(v) == [kind |-> "fin", v |-> v]
NaN == [kind |-> "nan", v |-> 0]
PosInf == [kind |-> "inf", v |-> 1]
NegInf == [kind |-> "ninf", v |-> -1]

\* a <= 0.0 on f64: every comparison with NaN is false.
LeZero(a) ==
    CASE a.kind = "fin" -> a.v <= 0
      [] a.kind = "ninf" -> TRUE
      [] a.kind = "inf" -> FALSE
      [] a.kind = "nan" -> FALSE

is_finite(a) == a.kind = "fin"

\* A String is a sequence of characters; "U+00E9" stands for the
\* characters whose UTF-8 encoding takes two bytes.
WhiteSpace == {" ", "\t", "\n"}
TwoByteChars == {"U+00E9"}

\* str::len(): the length in bytes.
len(s) == Len(s) + Cardinality({i \in 1..Len(s) : s[i] \in TwoByteChars})

RECURSIVE trim_start(_)
trim_start(s) ==
    IF s # <<>> /\ Head(s) \in WhiteSpace THEN trim_start(Tail(s)) ELSE s

RECURSIVE trim_end(_)
trim_end(s) ==
    IF s # <<>> /\ s[Len(s)] \in WhiteSpace
    THEN trim_end(SubSeq(s, 1, Len(s) - 1))
    ELSE s

trim(s) == trim_end(trim_start(s))

is_empty(s) == Len(s) = 0

(* ------------------------ domain/validation.rs ------------------------- *)
MAX_DESCRIPTION_LENGTH == 500
MAX_IDEMPOTENCY_KEY_LENGTH == 128

OkUnit == [kind |-> "Ok"]
Validation(m) == [kind |-> "Validation", msg |-> m]
NotFound(i) == [kind |-> "NotFound", id |-> i]
InvalidStateTransition(f, t) ==
    [kind |-> "InvalidStateTransition", from |-> f, to |-> t]
IdempotencyConflict == [kind |-> "IdempotencyConflict"]
Internal(m) == [kind |-> "Internal", msg |-> m]

\* Mutant: a validation that checks the description before the amount.
validate_create_request_description_first(req) ==
    IF is_empty(trim(req.description))
    THEN Validation("Description must not be empty")
    ELSE IF len(req.description) > MAX_DESCRIPTION_LENGTH
    THEN Validation("Description must not exceed 500 characters")
    ELSE IF LeZero(req.amount)
    THEN Validation("Amount must be greater than zero")
    ELSE IF ~is_finite(req.amount)
    THEN Validation("Amount must be a finite number")
    ELSE IF is_empty(trim(req.idempotency_key))
    THEN Validation("Idempotency key must not be empty")
    ELSE IF len(req.idempotency_key) > MAX_IDEMPOTENCY_KEY_LENGTH
    THEN Validation("Idempotency key must not exceed 128 characters")
    ELSE OkUnit

validate_create_request(req) ==
    IF LeZero(req.amount)
    THEN Validation("Amount must be greater than zero")
    ELSE IF ~is_finite(req.amount)
    THEN Validation("Amount must be a finite number")
    ELSE IF is_empty(trim(req.description))
    THEN Validation("Description must not be empty")
    ELSE IF len(req.description) > MAX_DESCRIPTION_LENGTH
    THEN Validation("Description must not exceed 500 characters")
    ELSE IF is_empty(trim(req.idempotency_key))
    THEN Validation("Idempotency key must not be empty")
    ELSE IF len(req.idempotency_key) > MAX_IDEMPOTENCY_KEY_LENGTH
    THEN Validation("Idempotency key must not exceed 128 characters")
    ELSE OkUnit

(* ----------------------------- inputs ---------------------------------- *)
Repeat(c, n) == [i \in 1..n |-> c]

K1 == <<"k", "1">>
K2 == <<"k", "2">>
D1 == <<"a">>
D2 == <<"b">>

CreateTransactionRequest(k, a, c, d) ==
    [idempotency_key |-> k, amount |-> a, currency |-> c, description |-> d]

\* Requests that pass validation: two share a key but differ in payload.
ValidRequests ==
    { CreateTransactionRequest(K1, Fin(250), "USD", D1),
      CreateTransactionRequest(K1, Fin(100), "EUR", D2),
      CreateTransactionRequest(K2, Fin(250), "EUR", D1) }

\* Requests that fail validation: on the amount, and on the description.
InvalidRequests ==
    { CreateTransactionRequest(K1, Fin(-10), "USD", D1),
      CreateTransactionRequest(K2, Fin(250), "USD", <<" ", " ", " ">>) }

Requests == ValidRequests \cup InvalidRequests

\* Inputs of the validation on its own: every combination of an amount, a
\* description and an idempotency key around each check's boundary.
ValidationAmounts == {Fin(-10), Fin(0), Fin(250), NaN, PosInf, NegInf}
ValidationDescriptions ==
    { D1, <<>>, <<" ", " ", " ">>, <<" ", "a", "\t">>,
      Repeat("x", 500), Repeat("x", 501), Repeat("U+00E9", 251) }
ValidationKeys ==
    { K1, <<>>, <<"\t">>, Repeat("k", 128), Repeat("k", 129) }
ValidationInputs ==
    { CreateTransactionRequest(k, a, "USD", d) :
        k \in ValidationKeys, a \in ValidationAmounts,
        d \in ValidationDescriptions }

(* ------------------------------ state ---------------------------------- *)
VARIABLES
    store,      \* InMemoryStorage.data: the HashMap<Uuid, Transaction>
    lock,       \* the RwLock: the set of read guards and of write guards
    clock,      \* the wall clock read by Utc::now()
    nextId,     \* the next identifier Uuid::new_v4() yields
    pc,         \* pc[p]: position of caller p in its operation
    arg,        \* arg[p]: the operation p runs and its arguments
    txn,        \* txn[p]: the Transaction built by create, before insert
    res,        \* res[p]: the value the operation returned
    acq,        \* acq[p]: number of lock acquisitions of the running call
    prior,      \* prior[p]: what had been returned when p's call started
    returned,   \* history: transactions returned by finished create calls
    updOk,      \* history: updOk[i] = targets of update_status successes
    calls,      \* history: number of calls started so far
    http,       \* http[p]: status code of the handler's response, 0 if none
    observed,   \* history: ids whose terminal status a call has returned
    known       \* known[p]: the observed ids p's call reads, at its start

vars == <<store, lock, clock, nextId, pc, arg, txn, res, acq, prior,
          returned, updOk, calls, http, observed, known>>

NoArg == [op |-> "none"]
NoTxn == [id |-> 0]
NoRes == [kind |-> "none"]

Unlocked == [readers |-> {}, writer |-> {}]

Values(s) == {s[i] : i \in DOMAIN s}

Init ==
    /\ store = <<>>
    /\ lock = Unlocked
    /\ clock = 0
    /\ nextId = 1
    /\ pc = [p \in Procs |-> "idle"]
    /\ arg = [p \in Procs |-> NoArg]
    /\ txn = [p \in Procs |-> NoTxn]
    /\ res = [p \in Procs |-> NoRes]
    /\ acq = [p \in Procs |-> 0]
    /\ prior = [p \in Procs |-> {}]
    /\ returned = {}
    /\ updOk = [i \in Ids |-> <<>>]
    /\ calls = 0
    /\ http = [p \in Procs |-> 0]
    /\ observed = {}
    /\ known = [p \in Procs |-> {}]

(* -------------------------- storage/memory.rs -------------------------- *)
\* Mutant: an insert that replaces the whole map by the new entry.
insert_only(s, t) == [i \in {t.id} |-> t]

\* Mutant: an insert that adds nothing when the idempotency key is stored.
insert_if_key_absent(s, t) ==
    IF \E j \in DOMAIN s : s[j].idempotency_key = t.idempotency_key
    THEN s
    ELSE [i \in DOMAIN s \cup {t.id} |-> IF i = t.id THEN t ELSE s[i]]

\* Mutant: an insert that replaces the entries with the same idempotency key.
insert_replace_key(s, t) ==
    [i \in {j \in DOMAIN s : s[j].idempotency_key # t.idempotency_key}
            \cup {t.id} |-> IF i = t.id THEN t ELSE s[i]]

\* HashMap::insert(txn.id, txn): adds the entry, replacing one with that id.
insert(s, t) ==
    [i \in DOMAIN s \cup {t.id} |-> IF i = t.id THEN t ELSE s[i]]

\* Mutant: a get that copies the fields at different moments, the status
\* after an update and updated_at before it.
get_torn(s, id) ==
    IF id \in DOMAIN s
    THEN {[s[id] EXCEPT !.updated_at = s[id].created_at]}
    ELSE {}

\* store.get(&id).cloned(): an Option, here the set of at most one snapshot.
get(s, id) == IF id \in DOMAIN s THEN {s[id]} ELSE {}

\* store.values().find(|t| t.idempotency_key == key): the first match in the
\* map's iteration order, which is arbitrary; the candidates are all matches.
find_by_idempotency_key(s, key) ==
    {t \in Values(s) : t.idempotency_key = key}

\* Mutant: a list that drops the currency filter.
list_nocurrency(s, status, currency) ==
    {t \in {s[i] : i \in DOMAIN s} : status = "None" \/ t.status = status}

\* store.values().filter(status).filter(currency).cloned().collect(): the
\* snapshots in the map's arbitrary order, modelled as their set (the ids
\* of the map's values are distinct, so the Vec has no duplicates).
list(s, status, currency) ==
    {t \in Values(s) : /\ (status = None \/ t.status = status)
                       /\ (currency = None \/ t.currency = currency)}

\* Mutant: an update that never consults the state machine.
update_status_unguarded(s, id, status, now) ==
    IF id \notin DOMAIN s
    THEN [store |-> s, res |-> NotFound(id)]
    ELSE LET t == [s[id] EXCEPT !.status = status, !.updated_at = now]
         IN  [store |-> [s EXCEPT ![id] = t],
              res |-> [kind |-> "Ok", txn |-> t]]

\* Mutant: an update that stamps updated_at before it checks the guard.
update_status_touch(s, id, status, now) ==
    IF id \notin DOMAIN s
    THEN [store |-> s, res |-> NotFound(id)]
    ELSE LET touched == [s EXCEPT ![id].updated_at = now]
         IN  IF ~can_transition_to(s[id].status, status)
             THEN [store |-> touched,
                   res |-> InvalidStateTransition(s[id].status, status)]
             ELSE LET t == [touched[id] EXCEPT !.status = status]
                  IN  [store |-> [s EXCEPT ![id] = t],
                       res |-> [kind |-> "Ok", txn |-> t]]

\* Mutant: an update that returns the clone taken before the mutation.
update_status_stale_return(s, id, status, now) ==
    IF id \notin DOMAIN s
    THEN [store |-> s, res |-> NotFound(id)]
    ELSE IF ~can_transition_to(s[id].status, status)
    THEN [store |-> s,
          res |-> InvalidStateTransition(s[id].status, status)]
    ELSE LET t == [s[id] EXCEPT !.status = status, !.updated_at = now]
         IN  [store |-> [s EXCEPT ![id] = t],
              res |-> [kind |-> "Ok", txn |-> s[id]]]

\* Mutant: an update that also restamps created_at.
update_status_reset(s, id, status, now) ==
    IF id \notin DOMAIN s
    THEN [store |-> s, res |-> NotFound(id)]
    ELSE IF ~can_transition_to(s[id].status, status)
    THEN [store |-> s,
          res |-> InvalidStateTransition(s[id].status, status)]
    ELSE LET t == [s[id] EXCEPT !.status = status, !.updated_at = now,
                                !.created_at = now]
         IN  [store |-> [s EXCEPT ![id] = t],
              res |-> [kind |-> "Ok", txn |-> t]]

\* Mutant: an update that mutates a clone and never writes it back.
update_status_lost(s, id, status, now) ==
    IF id \notin DOMAIN s
    THEN [store |-> s, res |-> NotFound(id)]
    ELSE IF ~can_transition_to(s[id].status, status)
    THEN [store |-> s,
          res |-> InvalidStateTransition(s[id].status, status)]
    ELSE LET t == [s[id] EXCEPT !.status = status, !.updated_at = now]
         IN  [store |-> s, res |-> [kind |-> "Ok", txn |-> t]]

\* Mutant: an update whose error names the requested status as `from`.
update_status_from_requested(s, id, status, now) ==
    IF id \notin DOMAIN s
    THEN [store |-> s, res |-> NotFound(id)]
    ELSE IF ~can_transition_to(s[id].status, status)
    THEN [store |-> s,
          res |-> InvalidStateTransition(status, status)]
    ELSE LET t == [s[id] EXCEPT !.status = status, !.updated_at = now]
         IN  [store |-> [s EXCEPT ![id] = t],
              res |-> [kind |-> "Ok", txn |-> t]]

\* The body of update_status under the write guard: the new map and the
\* value returned.
update_status(s, id, status, now) ==
    IF id \notin DOMAIN s
    THEN [store |-> s, res |-> NotFound(id)]
    ELSE IF ~can_transition_to(s[id].status, status)
    THEN [store |-> s,
          res |-> InvalidStateTransition(s[id].status, status)]
    ELSE LET t == [s[id] EXCEPT !.status = status, !.updated_at = now]
         IN  [store |-> [s EXCEPT ![id] = t],
              res |-> [kind |-> "Ok", txn |-> t]]

\* RwLock::read().await resolves when no write guard is held,
\* RwLock::write().await when no guard is held at all.
CanRead(l) == l.writer = {}
CanWrite(l) == l.writer = {} /\ l.readers = {}

(* ------------------------ error.rs, api/handlers.rs -------------------- *)
OK == 200
CREATED == 201
BAD_REQUEST == 400
NOT_FOUND == 404
CONFLICT == 409
UNPROCESSABLE_ENTITY == 422
INTERNAL_SERVER_ERROR == 500

\* Mutant: an error mapping that answers an invalid transition with 400.
into_response_bad_request(e) ==
    CASE e.kind = "NotFound" -> 404
      [] e.kind = "Validation" -> 400
      [] e.kind = "IdempotencyConflict" -> 409
      [] e.kind = "InvalidStateTransition" -> 400
      [] e.kind = "Internal" -> 500

\* AppError::into_response: the status code of an error response.
into_response(e) ==
    CASE e.kind = "NotFound" -> NOT_FOUND
      [] e.kind = "Validation" -> BAD_REQUEST
      [] e.kind = "IdempotencyConflict" -> CONFLICT
      [] e.kind = "InvalidStateTransition" -> UNPROCESSABLE_ENTITY
      [] e.kind = "Internal" -> INTERNAL_SERVER_ERROR

\* The handlers: the status code answered for the service's result r
\* (`?` turns an Err into its into_response; Json alone answers 200).
create_transaction(r) ==
    IF r.kind = "Ok"
    THEN IF r.created THEN CREATED ELSE OK
    ELSE into_response(r)

get_transaction(r) == IF r.kind = "Ok" THEN OK ELSE into_response(r)

list_transactions(r) == IF r.kind = "Ok" THEN OK ELSE into_response(r)

update_transaction_status(r) ==
    IF r.kind = "Ok" THEN OK ELSE into_response(r)

(* --------------------------- domain/service.rs ------------------------- *)
\* Mutant: a Transaction whose created_at is the default timestamp.
Transaction_epoch(id, req, now) ==
    [id |-> id,
     idempotency_key |-> req.idempotency_key,
     amount |-> req.amount,
     currency |-> req.currency,
     description |-> req.description,
     status |-> "PENDING",
     created_at |-> 0,
     updated_at |-> now]

\* The Transaction built by create from the request, a fresh id and `now`.
Transaction(id, req, now) ==
    [id |-> id,
     idempotency_key |-> req.idempotency_key,
     amount |-> req.amount,
     currency |-> req.currency,
     description |-> req.description,
     status |-> Pending,
     created_at |-> now,
     updated_at |-> now]

\* The ids of the snapshots in ts that show a terminal status.
TerminalIds(ts) == {t.id : t \in {u \in ts : u.status # Pending}}

\* History entry of a finished create call: what it returned.
Returned(t, created) ==
    [id |-> t.id, idempotency_key |-> t.idempotency_key,
     amount |-> t.amount, currency |-> t.currency,
     description |-> t.description, created |-> created]

\* Calls between their start and the generation of their id.  A call is
\* started only while an id is left for it (the model has MaxTxns ids) or
\* it will not need one (its key is stored already, or it is invalid).
Creating == {q \in Procs : pc[q] \in {"find_wait", "find_locked"}}

Finish(p, r) ==
    /\ pc' = [pc EXCEPT ![p] = "done"]
    /\ res' = [res EXCEPT ![p] = r]

\* Mutant: a create that looks the key up before it validates the request.
CreateCall_lookup_first(p, req) ==
    /\ pc[p] = "idle"
    /\ calls < MaxCalls
    /\ calls' = calls + 1
    /\ arg' = [arg EXCEPT ![p] = [op |-> "create", req |-> req]]
    /\ prior' = [prior EXCEPT ![p] = {}]
    /\ pc' = [pc EXCEPT ![p] = "find_wait"]
    /\ UNCHANGED <<store, lock, clock, nextId, txn, res, acq, returned, updOk, http, observed, known>>

\* create, line 26: validation; its error is returned before the store is
\* touched.
CreateCall(p, req) ==
    /\ pc[p] = "idle"
    /\ calls < MaxCalls
    /\ calls' = calls + 1
    /\ \/ nextId + Cardinality(Creating) <= MaxTxns
       \/ find_by_idempotency_key(store, req.idempotency_key) # {}
       \/ validate_create_request(req).kind = "Validation"
    /\ arg' = [arg EXCEPT ![p] = [op |-> "create", req |-> req]]
    /\ prior' = [prior EXCEPT ![p] =
                   {f \in returned : f.idempotency_key = req.idempotency_key}]
    /\ LET v == validate_create_request(req)
       IN  IF v.kind = "Validation"
           THEN /\ Finish(p, v)
                /\ http' = [http EXCEPT ![p] = create_transaction(v)]
           ELSE /\ pc' = [pc EXCEPT ![p] = "find_wait"]
                /\ UNCHANGED <<res, http>>
    /\ known' = [known EXCEPT ![p] = {}]
    /\ UNCHANGED <<store, lock, clock, nextId, txn, acq, returned, updOk, observed>>

\* find_by_idempotency_key: self.data.read().await
FindAcquire(p) ==
    /\ pc[p] = "find_wait"
    /\ CanRead(lock)
    /\ lock' = [lock EXCEPT !.readers = @ \cup {p}]
    /\ pc' = [pc EXCEPT ![p] = "find_locked"]
    /\ acq' = [acq EXCEPT ![p] = @ + 1]
    /\ UNCHANGED <<store, clock, nextId, arg, txn, res, prior, returned, updOk, calls, http, observed, known>>

\* Mutant: a strict lookup that refuses a repeated key instead of
\* replaying the stored transaction.
FindBody_strict(p) ==
    /\ pc[p] = "find_locked"
    /\ lock' = [lock EXCEPT !.readers = @ \ {p}]
    /\ LET found == find_by_idempotency_key(store, arg[p].req.idempotency_key)
       IN  IF found # {}
           THEN /\ Finish(p, IdempotencyConflict)
                /\ http' = [http EXCEPT ![p] = create_transaction(res'[p])]
                /\ UNCHANGED <<txn, nextId, returned>>
           ELSE /\ txn' = [txn EXCEPT ![p] =
                            Transaction(nextId, arg[p].req, clock)]
                /\ nextId' = nextId + 1
                /\ pc' = [pc EXCEPT ![p] = "insert_wait"]
                /\ UNCHANGED <<res, returned, http>>
    /\ UNCHANGED <<store, clock, arg, acq, prior, updOk, calls, known,
                   observed>>

\* Mutant: a lookup whose read guard lives on into the call's insert.
FindBody_keeps_guard(p) ==
    /\ pc[p] = "find_locked"
    /\ LET found == find_by_idempotency_key(store, arg[p].req.idempotency_key)
       IN  IF found # {}
           THEN \E existing \in found :
                  /\ lock' = [lock EXCEPT !.readers = @ \ {p}]
                  /\ Finish(p, [kind |-> "Ok", txn |-> existing,
                                created |-> FALSE])
                  /\ http' = [http EXCEPT ![p] = create_transaction(res'[p])]
                  /\ returned' = returned \cup {Returned(existing, FALSE)}
                  /\ UNCHANGED <<txn, nextId>>
           ELSE /\ txn' = [txn EXCEPT ![p] =
                            Transaction(nextId, arg[p].req, clock)]
                /\ nextId' = nextId + 1
                /\ pc' = [pc EXCEPT ![p] = "insert_wait"]
                /\ UNCHANGED <<lock, res, returned, http>>
    /\ observed' = IF pc'[p] = "done"
                   THEN observed \cup TerminalIds({res'[p].txn})
                   ELSE observed
    /\ UNCHANGED <<store, clock, arg, acq, prior, updOk, calls, known>>

\* find_by_idempotency_key body, then create lines 29-43: the replay is
\* returned; otherwise Utc::now(), Uuid::new_v4() and the new Transaction
\* are computed before the call suspends again in insert.
FindBody(p) ==
    /\ pc[p] = "find_locked"
    /\ lock' = [lock EXCEPT !.readers = @ \ {p}]
    /\ LET found == find_by_idempotency_key(store, arg[p].req.idempotency_key)
       IN  IF found # {}
           THEN \E existing \in found :
                  /\ Finish(p, [kind |-> "Ok", txn |-> existing,
                                created |-> FALSE])
                  /\ http' = [http EXCEPT ![p] = create_transaction(res'[p])]
                  /\ returned' = returned \cup {Returned(existing, FALSE)}
                  /\ UNCHANGED <<txn, nextId>>
           ELSE /\ txn' = [txn EXCEPT ![p] =
                            Transaction(nextId, arg[p].req, clock)]
                /\ nextId' = nextId + 1
                /\ pc' = [pc EXCEPT ![p] = "insert_wait"]
                /\ UNCHANGED <<res, returned, http>>
    /\ observed' = IF pc'[p] = "done"
                   THEN observed \cup TerminalIds({res'[p].txn})
                   ELSE observed
    /\ UNCHANGED <<store, clock, arg, acq, prior, updOk, calls, known>>

\* insert: self.data.write().await
InsertAcquire(p) ==
    /\ pc[p] = "insert_wait"
    /\ CanWrite(lock)
    /\ lock' = [lock EXCEPT !.writer = {p}]
    /\ pc' = [pc EXCEPT ![p] = "insert_locked"]
    /\ acq' = [acq EXCEPT ![p] = @ + 1]
    /\ UNCHANGED <<store, clock, nextId, arg, txn, res, prior, returned, updOk, calls, http, observed, known>>

\* insert body, then create line 46.
InsertBody(p) ==
    /\ pc[p] = "insert_locked"
    /\ store' = insert(store, txn[p])
    /\ lock' = [lock EXCEPT !.writer = {}]
    /\ Finish(p, [kind |-> "Ok", txn |-> txn[p], created |-> TRUE])
    /\ http' = [http EXCEPT ![p] = create_transaction(res'[p])]
    /\ returned' = returned \cup {Returned(txn[p], TRUE)}
    /\ UNCHANGED <<clock, nextId, arg, txn, acq, prior, updOk, calls, observed, known>>

\* TransactionService::get
GetCall(p, id) ==
    /\ pc[p] = "idle"
    /\ calls < MaxCalls
    /\ calls' = calls + 1
    /\ arg' = [arg EXCEPT ![p] = [op |-> "get", id |-> id]]
    /\ prior' = [prior EXCEPT ![p] = {f \in returned : f.id = id /\ f.created}]
    /\ pc' = [pc EXCEPT ![p] = "get_wait"]
    /\ known' = [known EXCEPT ![p] = observed \cap {id}]
    /\ UNCHANGED <<store, lock, clock, nextId, txn, res, acq, returned, updOk, http, observed>>

GetAcquire(p) ==
    /\ pc[p] = "get_wait"
    /\ CanRead(lock)
    /\ lock' = [lock EXCEPT !.readers = @ \cup {p}]
    /\ pc' = [pc EXCEPT ![p] = "get_locked"]
    /\ acq' = [acq EXCEPT ![p] = @ + 1]
    /\ UNCHANGED <<store, clock, nextId, arg, txn, res, prior, returned, updOk, calls, http, observed, known>>

\* storage get body, then service get's ok_or_else(NotFound).
GetBody(p) ==
    /\ pc[p] = "get_locked"
    /\ lock' = [lock EXCEPT !.readers = @ \ {p}]
    /\ LET o == get(store, arg[p].id)
       IN  IF o = {}
           THEN Finish(p, NotFound(arg[p].id))
           ELSE \E t \in o : Finish(p, [kind |-> "Ok", txn |-> t])
    /\ http' = [http EXCEPT ![p] = get_transaction(res'[p])]
    /\ observed' = IF res'[p].kind = "Ok"
                   THEN observed \cup TerminalIds({res'[p].txn})
                   ELSE observed
    /\ UNCHANGED <<store, clock, nextId, arg, txn, acq, prior, returned, updOk, calls, known>>

\* TransactionService::list
ListCall(p, status, currency) ==
    /\ pc[p] = "idle"
    /\ calls < MaxCalls
    /\ calls' = calls + 1
    /\ arg' = [arg EXCEPT ![p] =
                 [op |-> "list", status |-> status, currency |-> currency]]
    /\ pc' = [pc EXCEPT ![p] = "list_wait"]
    /\ known' = [known EXCEPT ![p] = observed]
    /\ UNCHANGED <<store, lock, clock, nextId, txn, res, acq, prior,
                   returned, updOk, http, observed>>

ListAcquire(p) ==
    /\ pc[p] = "list_wait"
    /\ CanRead(lock)
    /\ lock' = [lock EXCEPT !.readers = @ \cup {p}]
    /\ pc' = [pc EXCEPT ![p] = "list_locked"]
    /\ acq' = [acq EXCEPT ![p] = @ + 1]
    /\ UNCHANGED <<store, clock, nextId, arg, txn, res, prior, returned, updOk, calls, http, observed, known>>

ListBody(p) ==
    /\ pc[p] = "list_locked"
    /\ lock' = [lock EXCEPT !.readers = @ \ {p}]
    /\ Finish(p, [kind |-> "Ok",
                  txns |-> list(store, arg[p].status, arg[p].currency)])
    /\ http' = [http EXCEPT ![p] = list_transactions(res'[p])]
    /\ observed' = observed \cup TerminalIds(res'[p].txns)
    /\ UNCHANGED <<store, clock, nextId, arg, txn, acq, prior, returned, updOk, calls, known>>

\* TransactionService::update_status
UpdateCall(p, id, status) ==
    /\ pc[p] = "idle"
    /\ calls < MaxCalls
    /\ calls' = calls + 1
    /\ arg' = [arg EXCEPT ![p] =
                 [op |-> "update_status", id |-> id, status |-> status]]
    /\ pc' = [pc EXCEPT ![p] = "update_wait"]
    /\ known' = [known EXCEPT ![p] = observed \cap {id}]
    /\ UNCHANGED <<store, lock, clock, nextId, txn, res, acq, prior,
                   returned, updOk, http, observed>>

UpdateAcquire(p) ==
    /\ pc[p] = "update_wait"
    /\ CanWrite(lock)
    /\ lock' = [lock EXCEPT !.writer = {p}]
    /\ pc' = [pc EXCEPT ![p] = "update_locked"]
    /\ acq' = [acq EXCEPT ![p] = @ + 1]
    /\ UNCHANGED <<store, clock, nextId, arg, txn, res, prior, returned, updOk, calls, http, observed, known>>

\* storage update_status body: lookup, guard, mutation, all under the
\* write guard; Utc::now() is read inside it.
UpdateBody(p) ==
    /\ pc[p] = "update_locked"
    /\ LET u == update_status(store, arg[p].id, arg[p].status, clock)
       IN  /\ store' = u.store
           /\ Finish(p, u.res)
           /\ http' = [http EXCEPT ![p] = update_transaction_status(u.res)]
           /\ updOk' = IF u.res.kind = "Ok"
                       THEN [updOk EXCEPT ![arg[p].id] =
                               Append(@, arg[p].status)]
                       ELSE updOk
    /\ lock' = [lock EXCEPT !.writer = {}]
    /\ observed' = IF res'[p].kind = "Ok"
                   THEN observed \cup TerminalIds({res'[p].txn})
                   ELSE observed
    /\ UNCHANGED <<clock, nextId, arg, txn, acq, prior, returned, calls, known>>

\* The caller takes the returned value; the call is over.
Respond(p) ==
    /\ pc[p] = "done"
    /\ pc' = [pc EXCEPT ![p] = "idle"]
    /\ arg' = [arg EXCEPT ![p] = NoArg]
    /\ txn' = [txn EXCEPT ![p] = NoTxn]
    /\ res' = [res EXCEPT ![p] = NoRes]
    /\ acq' = [acq EXCEPT ![p] = 0]
    /\ prior' = [prior EXCEPT ![p] = {}]
    /\ http' = [http EXCEPT ![p] = 0]
    /\ known' = [known EXCEPT ![p] = {}]
    /\ UNCHANGED <<store, lock, clock, nextId, returned, updOk, calls, observed>>

\* The suspension points of the calls: each waits for the lock; create's
\* second wait lies between its lookup and its insert.
Waiting == {"find_wait", "insert_wait", "get_wait", "list_wait",
            "update_wait"}
Locked == {"find_locked", "insert_locked", "get_locked", "list_locked",
           "update_locked"}

\* The call is over and its locals are gone.
Forget(p) ==
    /\ pc' = [pc EXCEPT ![p] = "idle"]
    /\ arg' = [arg EXCEPT ![p] = NoArg]
    /\ txn' = [txn EXCEPT ![p] = NoTxn]
    /\ res' = [res EXCEPT ![p] = NoRes]
    /\ acq' = [acq EXCEPT ![p] = 0]
    /\ prior' = [prior EXCEPT ![p] = {}]
    /\ http' = [http EXCEPT ![p] = 0]
    /\ known' = [known EXCEPT ![p] = {}]

\* Mutant: a drop that can also abandon a body, its guard never released.
Drop_in_body(p) ==
    /\ pc[p] \in Waiting \cup Locked
    /\ Forget(p)
    /\ UNCHANGED <<store, lock, clock, nextId, returned, updOk, calls,
                   observed>>

\* The caller abandons the call: its future is dropped where it is
\* suspended, waiting for the lock; no guard is held there.
Drop(p) ==
    /\ pc[p] \in Waiting
    /\ Forget(p)
    /\ UNCHANGED <<store, lock, clock, nextId, returned, updOk, calls,
                   observed>>

(* ------------------------------ the clock ------------------------------ *)
\* Time passes.
ClockAdvance ==
    /\ clock < MaxClock
    /\ clock' = clock + 1
    /\ UNCHANGED <<store, lock, nextId, pc, arg, txn, res, acq, prior,
                   returned, updOk, calls, http, observed, known>>

\* Utc::now() is the system's wall clock, which is not monotonic: a time
\* synchronisation or an operator can set it back.
ClockSetBack ==
    /\ clock > 0
    /\ \E t \in 0..(clock - 1) : clock' = t
    /\ UNCHANGED <<store, lock, nextId, pc, arg, txn, res, acq, prior,
                   returned, updOk, calls, http, observed, known>>

(* --------------------------- specification ----------------------------- *)
StatusFilters == {None, Completed}
CurrencyFilters == {None, "USD"}

Next ==
    \/ \E p \in Procs, req \in Requests : CreateCall(p, req)
    \/ \E p \in Procs : FindAcquire(p)
    \/ \E p \in Procs : FindBody(p)
    \/ \E p \in Procs : InsertAcquire(p)
    \/ \E p \in Procs : InsertBody(p)
    \/ \E p \in Procs, id \in Ids : GetCall(p, id)
    \/ \E p \in Procs : GetAcquire(p)
    \/ \E p \in Procs : GetBody(p)
    \/ \E p \in Procs, s \in StatusFilters, c \in CurrencyFilters :
          ListCall(p, s, c)
    \/ \E p \in Procs : ListAcquire(p)
    \/ \E p \in Procs : ListBody(p)
    \/ \E p \in Procs, id \in Ids, s \in TransactionStatus :
          UpdateCall(p, id, s)
    \/ \E p \in Procs : UpdateAcquire(p)
    \/ \E p \in Procs : UpdateBody(p)
    \/ \E p \in Procs : Respond(p)
    \/ \E p \in Procs : Drop(p)
    \/ ClockAdvance
    \/ ClockSetBack

Spec == Init /\ [][Next]_vars

\* The steps of caller p that wait for the lock, and those that run a
\* store operation's body under its guard.
Acquire(p) ==
    \/ FindAcquire(p) \/ InsertAcquire(p) \/ GetAcquire(p)
    \/ ListAcquire(p) \/ UpdateAcquire(p)
Body(p) ==
    \/ FindBody(p) \/ InsertBody(p) \/ GetBody(p)
    \/ ListBody(p) \/ UpdateBody(p)

\* The calls without the passing of time: Utc::now() decides timestamps,
\* never who gets the lock, so the clock stands still here.
NextLive ==
    \/ \E p \in Procs, req \in Requests : CreateCall(p, req)
    \/ \E p \in Procs, id \in Ids : GetCall(p, id)
    \/ \E p \in Procs, s \in StatusFilters, c \in CurrencyFilters :
          ListCall(p, s, c)
    \/ \E p \in Procs, id \in Ids, s \in TransactionStatus :
          UpdateCall(p, id, s)
    \/ \E p \in Procs : Acquire(p)
    \/ \E p \in Procs : Body(p)
    \/ \E p \in Procs : Respond(p)
    \/ \E p \in Procs : Drop(p)

\* The runtime keeps polling a task that can run, so a body between two
\* awaits is executed; the RwLock is fair: a waiter is served once the lock
\* has been free for it often enough.  Nothing obliges a caller to start a
\* call or to abandon one.
Fairness ==
    \A p \in Procs : WF_vars(Body(p)) /\ SF_vars(Acquire(p))

SpecLive == Init /\ [][NextLive]_vars /\ Fairness

(* ------------------- validation on its own (pure) ---------------------- *)
\* Caller 1 holds a request to validate; nothing else is in flight.
InitValidate ==
    /\ store = <<>>
    /\ lock = Unlocked
    /\ clock = 0
    /\ nextId = 1
    /\ pc = [p \in Procs |-> IF p = 1 THEN "validate" ELSE "idle"]
    /\ \E req \in ValidationInputs :
          arg = [p \in Procs |-> IF p = 1
                                 THEN [op |-> "validate", req |-> req]
                                 ELSE NoArg]
    /\ txn = [p \in Procs |-> NoTxn]
    /\ res = [p \in Procs |-> NoRes]
    /\ acq = [p \in Procs |-> 0]
    /\ prior = [p \in Procs |-> {}]
    /\ returned = {}
    /\ updOk = [i \in Ids |-> <<>>]
    /\ calls = 0
    /\ http = [p \in Procs |-> 0]
    /\ observed = {}
    /\ known = [p \in Procs |-> {}]

\* validate_create_request(&req) is applied to the request.
Validate(p) ==
    /\ pc[p] = "validate"
    /\ Finish(p, validate_create_request(arg[p].req))
    /\ UNCHANGED <<store, lock, clock, nextId, arg, txn, acq, prior,
                   returned, updOk, calls, http, observed, known>>

NextValidate ==
    \/ \E p \in Procs : Validate(p)
    \/ \E p \in Procs : Respond(p)

SpecValidate == InitValidate /\ [][NextValidate]_vars

TypeOK ==
    /\ DOMAIN store \subseteq Ids
    /\ clock \in Times
    /\ nextId \in 1..(MaxTxns + 1)

(* ------------------------------ claims --------------------------------- *)
Terminal == {Completed, Failed, Cancelled}
AllowedPairs == {<<Pending, Completed>>, <<Pending, Failed>>,
                 <<Pending, Cancelled>>}

Done(p, op) == pc[p] = "done" /\ arg[p].op = op

\* Ids a create call has inserted so far.
InsertedIds == {f.id : f \in {g \in returned : g.created}}

\* C1: under any interleaving of concurrent create calls the store holds at
\* most one transaction per idempotency_key value.
C1_OnePerIdempotencyKey ==
    \A i \in DOMAIN store : \A j \in DOMAIN store :
        store[i].idempotency_key = store[j].idempotency_key => i = j

\* C2: a stored status that is Completed, Failed or Cancelled never changes
\* again, and the only status changes in the store are Pending->Completed,
\* Pending->Failed and Pending->Cancelled.
C2_TerminalFrozen ==
    [][\A i \in DOMAIN store :
          /\ i \in DOMAIN store'
          /\ store[i].status \in Terminal
                => store'[i].status = store[i].status
          /\ store'[i].status # store[i].status
                => /\ store[i].status = Pending
                   /\ store'[i].status \in Terminal]_vars

\* C2 witness: an update_status on a transaction in a terminal status was
\* refused, and the stored status is still that terminal status.
C2_Witness ==
    \E p \in Procs :
        /\ Done(p, "update_status")
        /\ res[p].kind = "InvalidStateTransition"
        /\ res[p].from \in Terminal
        /\ store[arg[p].id].status = res[p].from

\* C3: a create that starts after a create with the same idempotency key has
\* returned successfully returns created = false and the first call's id,
\* amount, currency and description, and inserts nothing.
C3_ReplayReturnsFirst ==
    \A p \in Procs :
        (Done(p, "create") /\ res[p].kind = "Ok") =>
            \A f \in prior[p] :
                /\ res[p].created = FALSE
                /\ res[p].txn.id = f.id
                /\ res[p].txn.amount = f.amount
                /\ res[p].txn.currency = f.currency
                /\ res[p].txn.description = f.description
                /\ txn[p] = NoTxn

\* C4: update_status(id, to) on a stored transaction of status `from` with
\* (from, to) outside the three allowed pairs returns InvalidStateTransition
\* and leaves the store (status and updated_at included) unchanged, each
\* time it is called.
C4_RejectedUpdateChangesNothing ==
    [][\A p \in Procs :
          ( /\ pc[p] = "update_locked"
            /\ pc'[p] = "done"
            /\ arg[p].id \in DOMAIN store
            /\ <<store[arg[p].id].status, arg[p].status>> \notin AllowedPairs )
          => /\ res'[p].kind = "InvalidStateTransition"
             /\ store' = store]_vars

\* C4 witness: the same invalid update was made twice, by two callers; both
\* got the same error and the transaction is as create left it.
C4_Witness ==
    \E p \in Procs : \E q \in Procs \ {p} :
        /\ Done(p, "update_status") /\ Done(q, "update_status")
        /\ arg[p] = arg[q]
        /\ res[p].kind = "InvalidStateTransition"
        /\ res[q] = res[p]
        /\ store[arg[p].id].status = Pending
        /\ store[arg[p].id].updated_at = store[arg[p].id].created_at

\* C5: for every id at most one update_status call ever succeeds, and the
\* stored status is the target of that call.
C5_OneSuccessfulUpdate ==
    \A i \in Ids :
        /\ Len(updOk[i]) <= 1
        /\ Len(updOk[i]) = 1
              => i \in DOMAIN store /\ store[i].status = updOk[i][1]

\* C5 witness: two update_status calls on one id were in flight together;
\* one succeeded and the other was refused.
C5_Witness ==
    \E p \in Procs : \E q \in Procs \ {p} :
        /\ Done(p, "update_status") /\ Done(q, "update_status")
        /\ arg[p].id = arg[q].id
        /\ res[p].kind = "Ok"
        /\ res[q].kind = "InvalidStateTransition"
        /\ res[q].from = arg[p].status

\* C6 as stated: the transaction returned by every create that passes
\* validation has status Pending and created_at = updated_at.
C6_ReturnedIsPending ==
    \A p \in Procs :
        (Done(p, "create") /\ res[p].kind = "Ok") =>
            /\ res[p].txn.status = Pending
            /\ res[p].txn.created_at = res[p].txn.updated_at

\* C6 amended: the transaction returned by every create that reports
\* created = true has status Pending and created_at = updated_at.
C6_CreatedIsPending ==
    \A p \in Procs :
        (Done(p, "create") /\ res[p].kind = "Ok" /\ res[p].created) =>
            /\ res[p].txn.status = Pending
            /\ res[p].txn.created_at = res[p].txn.updated_at

\* C6 witness: a create returned created = true at a time after the epoch.
C6_Witness ==
    \E p \in Procs :
        /\ Done(p, "create") /\ res[p].kind = "Ok" /\ res[p].created
        /\ res[p].txn.created_at > 0

\* C7: get(id) returns NotFound for an id no create has inserted, and
\* succeeds for an id that a create had returned with created = true before
\* the get started.
C7_GetFindsCreated ==
    [][\A p \in Procs :
          (pc[p] = "get_locked" /\ pc'[p] = "done") =>
             /\ arg[p].id \notin InsertedIds
                   => res'[p] = NotFound(arg[p].id)
             /\ prior[p] # {}
                   => /\ res'[p].kind = "Ok"
                      /\ res'[p].txn.id = arg[p].id]_vars

\* C7 witness: a get of an id that create had returned succeeded, and a
\* get of an id never inserted returned NotFound.
C7_Witness ==
    \E p \in Procs : \E q \in Procs \ {p} :
        /\ Done(p, "get") /\ prior[p] # {} /\ res[p].kind = "Ok"
        /\ Done(q, "get") /\ res[q].kind = "NotFound"
        /\ arg[q].id \notin InsertedIds

\* Sum of the sizes of the per-status lists of store s.
RECURSIVE SumSizes(_, _)
SumSizes(s, statuses) ==
    IF statuses = {} THEN 0
    ELSE LET st == CHOOSE x \in statuses : TRUE
         IN  Cardinality(list(s, st, None)) + SumSizes(s, statuses \ {st})

\* C8: with no other operation running, list without filters returns the
\* transactions of exactly the ids inserted so far, and list with a status
\* and/or currency filter exactly the stored transactions whose fields equal
\* the filters; the sizes of the four per-status lists sum to the size of
\* the unfiltered list.
C8_ListIsExact ==
    /\ [](SumSizes(store, TransactionStatus)
             = Cardinality(list(store, None, None)))
    /\ [][\A p \in Procs :
            ( /\ pc[p] = "list_locked"
              /\ pc'[p] = "done"
              /\ \A q \in Procs \ {p} : pc[q] \in {"idle", "done"} )
            => /\ res'[p].kind = "Ok"
               /\ res'[p].txns \subseteq Values(store)
               /\ {t.id : t \in res'[p].txns} =
                    {i \in InsertedIds :
                       /\ arg[p].status # None
                             => store[i].status = arg[p].status
                       /\ arg[p].currency # None
                             => store[i].currency = arg[p].currency}]_vars

\* C8 witness: a filtered list, run alone, returned some but not all of the
\* stored transactions.
C8_Witness ==
    \E p \in Procs :
        /\ Done(p, "list")
        /\ \A q \in Procs \ {p} : pc[q] = "idle"
        /\ res[p].txns # {}
        /\ Cardinality(res[p].txns) < Cardinality(DOMAIN store)
        /\ res[p].txns \subseteq Values(store)

\* C9: a create whose request fails validation returns a Validation error
\* in its first step, without acquiring the lock and with the store left
\* as it was.
C9_InvalidCreateTouchesNothing ==
    [][\A p \in Procs :
          ( /\ pc[p] = "idle"
            /\ arg'[p].op = "create"
            /\ arg'[p].req \in InvalidRequests )
          => /\ pc'[p] = "done"
             /\ res'[p].kind = "Validation"
             /\ acq'[p] = 0
             /\ lock' = lock
             /\ store' = store]_vars

\* C9 witness: an invalid create was rejected while a transaction with its
\* idempotency key was stored, and that transaction is still the only one.
C9_Witness ==
    \E p \in Procs :
        /\ Done(p, "create")
        /\ res[p].kind = "Validation"
        /\ acq[p] = 0
        /\ Cardinality(DOMAIN store) = 1
        /\ \E i \in DOMAIN store :
              store[i].idempotency_key = arg[p].req.idempotency_key

\* C10: every stored transaction has updated_at >= created_at.
C10_UpdatedNotBeforeCreated ==
    \A i \in DOMAIN store : store[i].updated_at >= store[i].created_at

\* C11: no read observes a torn transaction: every snapshot returned by
\* get, list or find_by_idempotency_key is the complete stored value of
\* that transaction at the instant of the read, hence its value before or
\* after each update, never a mixture.
C11_NoTornRead ==
    [][\A p \in Procs :
          /\ (pc[p] = "get_locked" /\ pc'[p] = "done" /\ res'[p].kind = "Ok")
                => res'[p].txn = store[arg[p].id]
          /\ (pc[p] = "list_locked" /\ pc'[p] = "done")
                => res'[p].txns \subseteq Values(store)
          /\ (pc[p] = "find_locked" /\ pc'[p] = "done")
                => res'[p].txn \in Values(store)]_vars

\* C11 witness: a get ran concurrently with an update_status of the same id
\* and holds the whole value from before the update, while the store holds
\* the whole value from after it.
C11_Witness ==
    \E p \in Procs : \E q \in Procs \ {p} :
        /\ Done(p, "get") /\ res[p].kind = "Ok"
        /\ Done(q, "update_status") /\ res[q].kind = "Ok"
        /\ arg[q].id = arg[p].id
        /\ res[p].txn.status = Pending
        /\ res[p].txn.updated_at = res[p].txn.created_at
        /\ store[arg[p].id].status = arg[q].status
        /\ store[arg[p].id].updated_at # store[arg[p].id].created_at

\* C12: update_status on an id not in the store returns NotFound with that
\* id and leaves the store unchanged; on a stored id with an allowed
\* transition it sets status and updated_at in one step and returns the
\* stored transaction as it is right after the update.
C12_UpdateOutcome ==
    [][\A p \in Procs :
          (pc[p] = "update_locked" /\ pc'[p] = "done") =>
             /\ arg[p].id \notin DOMAIN store
                   => /\ res'[p] = NotFound(arg[p].id)
                      /\ store' = store
             /\ ( /\ arg[p].id \in DOMAIN store
                  /\ <<store[arg[p].id].status, arg[p].status>>
                        \in AllowedPairs )
                   => /\ res'[p].kind = "Ok"
                      /\ store'[arg[p].id].status = arg[p].status
                      /\ store'[arg[p].id].updated_at = clock
                      /\ res'[p].txn = store'[arg[p].id]]_vars

\* C12 witness: one update_status succeeded at a time after the creation
\* and its snapshot is the stored value; another got NotFound.
C12_Witness ==
    \E p \in Procs : \E q \in Procs \ {p} :
        /\ Done(p, "update_status") /\ res[p].kind = "Ok"
        /\ res[p].txn = store[arg[p].id]
        /\ res[p].txn.updated_at # res[p].txn.created_at
        /\ Done(q, "update_status") /\ res[q] = NotFound(arg[q].id)

\* The fields of a transaction that are set at creation.
Immutable(t) ==
    <<t.id, t.idempotency_key, t.amount, t.currency, t.description,
      t.created_at>>

\* C13: a successful update_status changes only status and updated_at of
\* the transaction with that id and no other stored transaction; id,
\* idempotency_key, amount, currency, description and created_at of a
\* stored transaction never change after insertion.
C13_UpdateFrame ==
    [][/\ \A i \in DOMAIN store :
             /\ i \in DOMAIN store'
             /\ Immutable(store'[i]) = Immutable(store[i])
       /\ \A p \in Procs :
             ( /\ pc[p] = "update_locked" /\ pc'[p] = "done"
               /\ res'[p].kind = "Ok" )
             => /\ DOMAIN store' = DOMAIN store
                /\ \A j \in DOMAIN store \ {arg[p].id} :
                      store'[j] = store[j]]_vars

\* C13 witness: of two stored transactions one was updated at a later time
\* than its creation and the other is as create left it.
C13_Witness ==
    \E p \in Procs : \E j \in DOMAIN store :
        /\ Done(p, "update_status") /\ res[p].kind = "Ok"
        /\ j # arg[p].id
        /\ store[arg[p].id].updated_at # store[arg[p].id].created_at
        /\ store[j].status = Pending

\* C14: POST create answers 201 exactly when the service reports
\* created = true and 200 exactly when it reports created = false; a
\* Validation error answers 400, NotFound 404 and InvalidStateTransition
\* 422 (so a PATCH to PENDING on a COMPLETED transaction answers 422).
C14_StatusCodes ==
    \A p \in Procs :
        pc[p] = "done" =>
            /\ (arg[p].op = "create" /\ res[p].kind = "Ok")
                  => /\ http[p] = 201 <=> res[p].created
                     /\ http[p] = 200 <=> ~res[p].created
            /\ http[p] = 201 => (arg[p].op = "create" /\ res[p].kind = "Ok")
            /\ res[p].kind = "Validation" => http[p] = 400
            /\ res[p].kind = "NotFound" => http[p] = 404
            /\ res[p].kind = "InvalidStateTransition" => http[p] = 422

\* C14 witness: a PATCH to PENDING on a COMPLETED transaction was answered
\* with 422.
C14_Witness ==
    \E p \in Procs :
        /\ Done(p, "update_status")
        /\ arg[p].status = Pending
        /\ res[p] = InvalidStateTransition(Completed, Pending)
        /\ store[arg[p].id].status = Completed
        /\ http[p] = 422

\* The six checks as the claim states them, in order, with the error of
\* each; the first is `amount > 0`.
GreaterThanZero(a) == (a.kind = "fin" /\ a.v > 0) \/ a.kind = "inf"

\* The first check as the code has it: not `amount <= 0.0`, which NaN passes.
NotLeZero(a) == ~((a.kind = "fin" /\ a.v <= 0) \/ a.kind = "ninf")

StatedChecks(req, first) ==
    << <<first, "Amount must be greater than zero">>,
       <<req.amount.kind = "fin", "Amount must be a finite number">>,
       <<trim(req.description) # <<>>, "Description must not be empty">>,
       <<len(req.description) <= 500,
         "Description must not exceed 500 characters">>,
       <<trim(req.idempotency_key) # <<>>,
         "Idempotency key must not be empty">>,
       <<len(req.idempotency_key) <= 128,
         "Idempotency key must not exceed 128 characters">> >>

\* The error of the first failing check, Ok when all six hold.
FirstFailure(checks) ==
    LET failing == {i \in 1..Len(checks) : ~checks[i][1]}
    IN  IF failing = {}
        THEN [kind |-> "Ok"]
        ELSE LET i == CHOOSE k \in failing : \A j \in failing : k <= j
             IN  [kind |-> "Validation", msg |-> checks[i][2]]

\* C15 as stated: validate_create_request returns the error of the first
\* failing check among amount > 0, amount finite, trimmed description
\* non-empty, description length <= 500, trimmed key non-empty, key length
\* <= 128, and Ok exactly when all six hold; so NaN gets the 'greater than
\* zero' error.
C15_FirstFailingCheckAsStated ==
    \A p \in Procs :
        Done(p, "validate") =>
            res[p] = FirstFailure(StatedChecks(arg[p].req,
                                    GreaterThanZero(arg[p].req.amount)))

\* C15 amended: the same with the first check being `not (amount <= 0)`:
\* a negative, zero or -infinite amount gets the 'greater than zero' error,
\* NaN and +infinity pass it and get the 'finite number' error; lengths are
\* lengths in bytes.
C15_FirstFailingCheck ==
    \A p \in Procs :
        Done(p, "validate") =>
            /\ res[p] = FirstFailure(StatedChecks(arg[p].req,
                                       NotLeZero(arg[p].req.amount)))
            /\ res[p].kind = "Ok" <=>
                  \A i \in 1..6 :
                     StatedChecks(arg[p].req,
                                  GreaterThanZero(arg[p].req.amount))[i][1]

\* C15 witness: a request that fails every check but the first, its amount
\* being NaN, was rejected with the 'finite number' error.
C15_Witness ==
    \E p \in Procs :
        /\ Done(p, "validate")
        /\ arg[p].req.amount = NaN
        /\ trim(arg[p].req.description) = <<>>
        /\ len(arg[p].req.idempotency_key) > 128
        /\ res[p] = Validation("Amount must be a finite number")

\* C16: two concurrent create calls with the same unused idempotency key
\* can both get `not found`, both insert and both return created = true
\* with different ids: a create past its lookup inserts its transaction
\* under a new id and returns created = true, whatever was inserted since
\* the lookup.  The witness is the state the claim says is reachable.
C16_InsertIgnoresLaterInserts ==
    [][\A p \in Procs :
          (pc[p] = "insert_locked" /\ pc'[p] = "done") =>
             /\ res'[p] = [kind |-> "Ok", txn |-> txn[p], created |-> TRUE]
             /\ txn[p].id \notin DOMAIN store
             /\ DOMAIN store' = DOMAIN store \cup {txn[p].id}
             /\ store'[txn[p].id] = txn[p]
             /\ \A i \in DOMAIN store : store'[i] = store[i]]_vars

\* C16 witness: two create calls with the same key, unused when each of
\* them started, both returned created = true with different ids, and the
\* store holds both transactions.
C16_Witness ==
    \E p \in Procs : \E q \in Procs \ {p} :
        /\ Done(p, "create") /\ Done(q, "create")
        /\ arg[p].req.idempotency_key = arg[q].req.idempotency_key
        /\ prior[p] = {} /\ prior[q] = {}
        /\ res[p].kind = "Ok" /\ res[p].created
        /\ res[q].kind = "Ok" /\ res[q].created
        /\ res[p].txn.id # res[q].txn.id
        /\ {res[p].txn, res[q].txn} \subseteq Values(store)
        /\ Cardinality(find_by_idempotency_key(
                          store, arg[p].req.idempotency_key)) = 2

C19_ErrorNamesStoredStatus ==
    [][\A p \in Procs :
          ( /\ pc[p] = "update_locked" /\ pc'[p] = "done"
            /\ res'[p].kind = "InvalidStateTransition" )
          => /\ arg[p].id \in DOMAIN store
             /\ res'[p].from = store[arg[p].id].status
             /\ res'[p].to = arg[p].status]_vars

\* C19 witness: two update_status calls with different targets raced on a
\* Pending transaction (the loser started before any terminal status had
\* been returned); the loser's error names the winner's target as `from`.
C19_Witness ==
    \E p \in Procs : \E q \in Procs \ {p} :
        /\ Done(p, "update_status") /\ Done(q, "update_status")
        /\ arg[p].id = arg[q].id
        /\ arg[p].status # arg[q].status
        /\ arg[q].status # Pending
        /\ known[p] = {} /\ known[q] = {}
        /\ res[p].kind = "Ok"
        /\ res[q] = InvalidStateTransition(arg[p].status, arg[q].status)

\* Every stored transaction is whole: all its fields are there, it sits
\* under its own id, a Pending one is as create wrote it and a terminal one
\* is the result of one successful update.
StoreWhole ==
    \A i \in DOMAIN store :
        /\ DOMAIN store[i] = {"id", "idempotency_key", "amount", "currency",
                              "description", "status", "created_at",
                              "updated_at"}
        /\ store[i].id = i
        /\ store[i].status = Pending
              => store[i].updated_at = store[i].created_at /\ updOk[i] = <<>>
        /\ store[i].status # Pending => updOk[i] = <<store[i].status>>

\* C18: a create or update_status abandoned at a suspension point (waiting
\* for the lock, or between create's lookup and its insert) leaves the
\* store as it is, without the call's transaction, and holds no guard; no
\* state with a partially written transaction is reachable and guards are
\* held only by calls inside a store body.
C18_DropIsClean ==
    /\ [](StoreWhole)
    /\ [](lock.readers \cup lock.writer = {p \in Procs : pc[p] \in Locked})
    /\ [][\A p \in Procs :
            (pc[p] \in Waiting /\ pc'[p] = "idle")
            => /\ store' = store
               /\ lock' = lock
               /\ p \notin lock'.readers \cup lock'.writer
               /\ txn[p].id \notin DOMAIN store']_vars

\* C18 witness: a create was abandoned between its lookup and its insert
\* (its id is used up, no transaction has it), nothing is in flight, the
\* lock is free, and another transaction is stored whole.
C18_Witness ==
    /\ \A p \in Procs : pc[p] = "idle"
    /\ lock = Unlocked
    /\ store # <<>>
    /\ \E i \in 1..(nextId - 1) : i \notin DOMAIN store

\* C20: the set of stored ids only grows and no stored transaction is
\* replaced by a different one (ids being fresh); get, list,
\* find_by_idempotency_key and a replayed create leave the store unchanged.
C20_StoreOnlyGrows ==
    /\ [](DOMAIN store = InsertedIds)
    /\ [][/\ DOMAIN store \subseteq DOMAIN store'
          /\ \A i \in DOMAIN store :
                Immutable(store'[i]) = Immutable(store[i])
          /\ \A p \in Procs :
                pc[p] \in {"find_locked", "get_locked", "list_locked"}
                   /\ pc'[p] # pc[p]
                => store' = store]_vars

\* C20 witness: a replayed create returned while every transaction ever
\* inserted, two of them, is stored.
C20_Witness ==
    \E p \in Procs :
        /\ Done(p, "create") /\ res[p].kind = "Ok" /\ ~res[p].created
        /\ DOMAIN store = InsertedIds
        /\ Cardinality(DOMAIN store) = 2

\* C21: under a fair lock every create, get, list and update_status call
\* that is not abandoned eventually returns: no caller holds a guard while
\* it waits for the lock, a returned call holds none and has acquired the
\* lock once per store operation it ran, and a call in flight leads to its
\* return (pc "done") unless its caller drops it (pc "idle").
OpsOf(p) ==
    IF arg[p].op = "create"
    THEN IF res[p].kind = "Validation" THEN 0
         ELSE IF res[p].created THEN 2 ELSE 1
    ELSE 1

C21_EveryCallReturns ==
    /\ [](\A p \in Procs :
            /\ pc[p] \in Waiting \cup {"done", "idle"}
                  => p \notin lock.readers \cup lock.writer
            /\ pc[p] = "done" => acq[p] = OpsOf(p))
    /\ \A p \in Procs :
          (pc[p] \in Waiting \cup Locked) ~> (pc[p] \in {"done", "idle"})

\* C21 witness: a create waits for the write lock of its insert, its lookup
\* done, while the other caller holds the write lock in update_status.
C21_Witness ==
    \E p, q \in Procs :
        /\ pc[p] = "insert_wait" /\ acq[p] = 1
        /\ pc[q] = "update_locked"
        /\ lock.writer = {q}

\* C22: no operation of the service returns IdempotencyConflict or
\* Internal: create returns only Ok or Validation, get only Ok or NotFound,
\* list only Ok, update_status only Ok, NotFound or InvalidStateTransition.
ReturnKinds(op) ==
    CASE op = "create" -> {"Ok", "Validation"}
      [] op = "get" -> {"Ok", "NotFound"}
      [] op = "list" -> {"Ok"}
      [] op = "update_status" -> {"Ok", "NotFound", "InvalidStateTransition"}

C22_OnlyStatedErrors ==
    \A p \in Procs :
        pc[p] = "done"
        => /\ res[p].kind \in ReturnKinds(arg[p].op)
           /\ res[p].kind \notin {IdempotencyConflict.kind, Internal(<<>>).kind}

\* C22 witness: a create with a key that is stored already has returned,
\* and an update_status of an unknown id has returned its error.
C22_Witness ==
    \E p, q \in Procs :
        /\ Done(p, "create") /\ res[p].kind = "Ok" /\ ~res[p].created
        /\ Done(q, "update_status") /\ res[q].kind = "NotFound"

====
